---- MODULE Spec2Model ----
(***************************************************************************)
(* The product catalog of src/prog/idz.py: the Staff class (add, select,   *)
(* load, save) over a list of Product(name, market, count) values, and the *)
(* XML document it is saved to and loaded from.                            *)
(*                                                                         *)
(* Text is a sequence of code points, so that names compare the way        *)
(* Python compares str values and so that str(count) / int(text) are real  *)
(* conversions.  A document is the list of <product> elements under the    *)
(* <products> root; an element is the list of its children in document     *)
(* order, each child a tag and its text.                                   *)
(***************************************************************************)
EXTENDS Integers, Sequences, FiniteSets

VARIABLES
    products,   \* Staff.products: the list of Product values
    file,       \* the document last written by save: <<>> (no file) or <<doc>>
    call,       \* the operation last called on the Staff object, with its arguments
    ret         \* what that call did: the exception raised (or "none") and the value returned

vars == <<products, file, call, ret>>

----------------------------------------------------------------------------
(* Bounds of the model. *)

\* add is called only while the catalog holds fewer than MaxLen products.
MaxLen == 2

\* a loaded document holds at most MaxProducts <product> elements.
MaxProducts == 2

\* save is called only while the catalog holds at most MaxSaved products.
MaxSaved == 1

----------------------------------------------------------------------------
(* Text and the optional values of Python. *)

\* Python's None, and a value that is not None.
None == <<>>
Some(v) == <<v>>
IsNone(o) == o = <<>>
Val(o) == o[1]

\* "A", "Aa", "a", "m", "x" as code points.
TextA == <<65>>
TextAa == <<65, 97>>
Texta == <<97>>
TextM == <<109>>
TextX == <<120>>

\* str < str in Python: lexicographic on code points, a proper prefix is smaller.
RECURSIVE StrLess(_, _)
StrLess(a, b) ==
    IF b = <<>> THEN FALSE
    ELSE IF a = <<>> THEN TRUE
    ELSE IF Head(a) # Head(b) THEN Head(a) < Head(b)
    ELSE StrLess(Tail(a), Tail(b))

\* str(n) for a natural number n: its decimal digits.
RECURSIVE NatToText(_)
NatToText(n) ==
    IF n < 10 THEN <<48 + n>>
    ELSE Append(NatToText(n \div 10), 48 + (n % 10))

\* str(count), idz.py line 105.
IntToText(n) == IF n < 0 THEN <<45>> \o NatToText(-n) ELSE NatToText(n)

IsDigit(ch) == ch >= 48 /\ ch <= 57

AllDigits(t) == t # <<>> /\ \A i \in 1..Len(t) : IsDigit(t[i])

\* the digits of an int literal after its optional sign.
Unsigned(t) == IF t # <<>> /\ (t[1] = 45 \/ t[1] = 43) THEN Tail(t) ELSE t

\* int(text) succeeds: an optional sign and at least one decimal digit.
IsIntText(t) == AllDigits(Unsigned(t))

RECURSIVE DigitsToNat(_)
DigitsToNat(t) ==
    IF t = <<>> THEN 0
    ELSE 10 * DigitsToNat(SubSeq(t, 1, Len(t) - 1)) + (t[Len(t)] - 48)

\* int(text) for a text that IsIntText accepts.
TextToInt(t) ==
    IF t[1] = 45 THEN 0 - DigitsToNat(Tail(t)) ELSE DigitsToNat(Unsigned(t))

----------------------------------------------------------------------------
(* Product and the sort of add. *)

Product(name, market, count) == [name |-> name, market |-> market, count |-> count]

\* One insertion of a stable sort by name: x goes after every element whose name is
\* not greater than its own.  A variant that puts x before its equals is kept for
\* comparison.
RECURSIVE InsertBeforeEquals(_, _)
InsertBeforeEquals(sorted, x) ==
    IF sorted = <<>> THEN <<x>>
    ELSE IF StrLess(sorted[Len(sorted)].name, x.name) THEN Append(sorted, x)
    ELSE Append(InsertBeforeEquals(SubSeq(sorted, 1, Len(sorted) - 1), x), sorted[Len(sorted)])

RECURSIVE Insert(_, _)
Insert(sorted, x) ==
    IF sorted = <<>> THEN <<x>>
    ELSE IF StrLess(x.name, sorted[Len(sorted)].name)
         THEN Append(Insert(SubSeq(sorted, 1, Len(sorted) - 1), x), sorted[Len(sorted)])
         ELSE Append(sorted, x)

\* list.sort(key=lambda product: product.name): a stable sort of the whole list.
RECURSIVE SortByName(_)
SortByName(s) ==
    IF s = <<>> THEN <<>>
    ELSE Insert(SortByName(SubSeq(s, 1, Len(s) - 1)), s[Len(s)])

----------------------------------------------------------------------------
(* The results of calls. *)

Returned(value) == [exc |-> "none", arg |-> 0, value |-> value]
Raised(exc, arg) == [exc |-> exc, arg |-> arg, value |-> <<>>]

NoArgs == [op |-> "", name |-> <<>>, market |-> <<>>, count |-> 0, doc |-> <<>>]

----------------------------------------------------------------------------
(* Staff.add and Staff.select. *)

\* A variant of add that also refuses a count of 0, kept for comparison.
AddRefusingZero(prods, name, market, count) ==
    IF count <= 0
    THEN [products |-> prods, ret |-> Raised("IllegalCount", count)]
    ELSE [products |-> SortByName(Append(prods, Product(name, market, count))),
          ret |-> Returned(<<>>)]

\* Staff.add: IllegalCount(count) before anything is touched, else append and sort.
AddOutcome(prods, name, market, count) ==
    IF count < 0
    THEN [products |-> prods, ret |-> Raised("IllegalCount", count)]
    ELSE [products |-> SortByName(Append(prods, Product(name, market, count))),
          ret |-> Returned(<<>>)]

\* A variant of select that stops at the first match, kept for comparison.
RECURSIVE SelectFirst(_, _)
SelectFirst(prods, name) ==
    IF prods = <<>> THEN <<>>
    ELSE IF Head(prods).name = name THEN <<Head(prods)>>
    ELSE SelectFirst(Tail(prods), name)

\* Staff.select: the loop over self.products, appending each product whose name is
\* == the query.
RECURSIVE Select(_, _)
Select(prods, name) ==
    IF prods = <<>> THEN <<>>
    ELSE IF Head(prods).name = name
         THEN <<Head(prods)>> \o Select(Tail(prods), name)
         ELSE Select(Tail(prods), name)

----------------------------------------------------------------------------
(* Documents, Staff.save and Staff.load. *)

Child(tag, text) == [tag |-> tag, text |-> text]

\* element.text as ElementTree gives it: None for an element without text.
ElementText(text) == IF text = <<>> THEN None ELSE Some(text)

\* The <product> element save builds for one product: name, market, count, in that
\* order, the count as str(count).
ProductElement(p) ==
    <<Child("name", p.name), Child("market", p.market), Child("count", IntToText(p.count))>>

\* Staff.save: one <product> element per product, in the order of the list.
Serialize(prods) == [i \in 1..Len(prods) |-> ProductElement(prods[i])]

\* The inner loop of load over the children of one <product> element.  name, market
\* and count are the loop's three variables, acc is self.products.  int() raises
\* TypeError on None and ValueError on text that is no integer, and ends the load
\* there; the test of line 93 runs after every child.
RECURSIVE ScanChildren(_, _, _, _, _)
ScanChildren(children, name, market, count, acc) ==
    IF children = <<>> THEN [products |-> acc, exc |-> "none"]
    ELSE LET element == Head(children)
             text == ElementText(element.text)
         IN  IF element.tag = "count" /\ IsNone(text)
             THEN [products |-> acc, exc |-> "TypeError"]
             ELSE IF element.tag = "count" /\ ~IsIntText(Val(text))
             THEN [products |-> acc, exc |-> "ValueError"]
             ELSE LET name2 == IF element.tag = "name" THEN text ELSE name
                      market2 == IF element.tag = "name" THEN market
                                 ELSE IF element.tag = "market" THEN text ELSE market
                      count2 == IF element.tag = "count" THEN Some(TextToInt(Val(text)))
                                ELSE count
                      acc2 == IF ~IsNone(name2) /\ ~IsNone(market2) /\ ~IsNone(count2)
                              THEN Append(acc, Product(Val(name2), Val(market2), Val(count2)))
                              ELSE acc
                  IN  ScanChildren(Tail(children), name2, market2, count2, acc2)

\* The outer loop of load over the <product> elements of the root: the three
\* variables start as None for each element.
RECURSIVE ScanProducts(_, _)
ScanProducts(tree, acc) ==
    IF tree = <<>> THEN [products |-> acc, exc |-> "none"]
    ELSE LET r == ScanChildren(Head(tree), None, None, None, acc)
         IN  IF r.exc # "none" THEN r ELSE ScanProducts(Tail(tree), r.products)

\* Staff.load once the document is read and parsed: self.products = [] and the
\* loops.  What the loops appended before an exception stays in self.products.
LoadOutcome(doc) == ScanProducts(doc, <<>>)

----------------------------------------------------------------------------
(* The inputs. *)

AddNames == {<<>>, TextA, TextAa, Texta}
AddMarkets == {<<>>, TextM}
AddCounts == {-1, 0, 1}

\* <name>A</name><market>m</market><count>1</count>
BaseElement == ProductElement(Product(TextA, TextM, 1))

WithText(element, tag, text) ==
    [i \in 1..Len(element) |->
        IF element[i].tag = tag THEN Child(tag, text) ELSE element[i]]

Without(element, tag) == SelectSeq(element, LAMBDA c : c.tag # tag)

Reversed(element) == [i \in 1..Len(element) |-> element[Len(element) + 1 - i]]

\* The <product> elements documents are made of: well-formed ones, one with its
\* children in another order, ones with a negative, a malformed and an empty count,
\* one with an empty market, ones lacking a child, ones with a child too many, and
\* the empty element.
Elements ==
    { BaseElement,
      WithText(WithText(BaseElement, "name", Texta), "count", IntToText(0)),
      Reversed(WithText(BaseElement, "name", TextAa)),
      WithText(BaseElement, "count", IntToText(-1)),
      WithText(BaseElement, "count", TextX),
      WithText(BaseElement, "count", <<>>),
      WithText(BaseElement, "market", <<>>),
      Without(WithText(BaseElement, "name", Texta), "count"),
      Without(BaseElement, "name"),
      Without(BaseElement, "market"),
      Append(BaseElement, Child("other", <<>>)),
      Append(BaseElement, Child("name", Texta)),
      <<>> }

RECURSIVE SeqsUpTo(_, _)
SeqsUpTo(S, n) ==
    IF n = 0 THEN {<<>>}
    ELSE LET shorter == SeqsUpTo(S, n - 1)
         IN  shorter \cup {Append(s, x) : s \in shorter, x \in S}

Docs == SeqsUpTo(Elements, MaxProducts)

\* what load makes of each of these documents.
Loaded == [doc \in Docs |-> LoadOutcome(doc)]

----------------------------------------------------------------------------
(* The state machine: one Staff object, called one operation at a time. *)

Init ==
    /\ products = <<>>
    /\ file = <<>>
    /\ call = [NoArgs EXCEPT !.op = "new"]
    /\ ret = Returned(<<>>)

Add(name, market, count) ==
    /\ Len(products) < MaxLen
    /\ LET r == AddOutcome(products, name, market, count)
       IN  /\ products' = r.products
           /\ ret' = r.ret
    /\ call' = [op |-> "add", name |-> name, market |-> market, count |-> count, doc |-> <<>>]
    /\ UNCHANGED file

DoSelect(name) ==
    /\ ret' = Returned(Select(products, name))
    /\ call' = [op |-> "select", name |-> name, market |-> <<>>, count |-> 0, doc |-> <<>>]
    /\ UNCHANGED <<products, file>>

Save ==
    /\ Len(products) <= MaxSaved
    /\ file' = <<Serialize(products)>>
    /\ ret' = Returned(<<>>)
    /\ call' = [op |-> "save", name |-> <<>>, market |-> <<>>, count |-> 0, doc |-> <<>>]
    /\ UNCHANGED products

\* load of a file that holds the document doc, r being what the loops make of it.
LoadDocument(doc, r) ==
    /\ products' = r.products
    /\ ret' = IF r.exc = "none" THEN Returned(<<>>) ELSE Raised(r.exc, 0)
    /\ call' = [op |-> "load", name |-> <<>>, market |-> <<>>, count |-> 0, doc |-> doc]
    /\ UNCHANGED file

\* load of a file written outside the program.
Load == \E doc \in Docs : LoadDocument(doc, Loaded[doc])

\* load of the file save wrote.
LoadSaved ==
    /\ file # <<>>
    /\ LoadDocument(file[1], LoadOutcome(file[1]))

\* load of a file that does not exist: open() raises before anything is touched.
LoadMissing ==
    /\ file = <<>>
    /\ ret' = Raised("FileNotFoundError", 0)
    /\ call' = [op |-> "load", name |-> <<>>, market |-> <<>>, count |-> 0, doc |-> <<>>]
    /\ UNCHANGED <<products, file>>

Next ==
    \/ \E name \in AddNames, market \in AddMarkets, count \in AddCounts :
           Add(name, market, count)
    \/ \E name \in AddNames : DoSelect(name)
    \/ Save
    \/ Load
    \/ LoadSaved
    \/ LoadMissing

Spec == Init /\ [][Next]_vars

\* add and select on a catalog as a load may have left it (a load replaces the
\* list whatever it held, so these are the catalogs any sequence of add and load
\* reaches, up to MaxLen).
LoadedCatalogs == {Loaded[doc].products : doc \in Docs}

InitLoaded ==
    /\ products \in LoadedCatalogs
    /\ file = <<>>
    /\ call = [NoArgs EXCEPT !.op = "new"]
    /\ ret = Returned(<<>>)

NextCatalog ==
    \/ \E name \in AddNames, market \in AddMarkets, count \in AddCounts :
           Add(name, market, count)
    \/ \E name \in AddNames : DoSelect(name)

SpecCatalog == InitLoaded /\ [][NextCatalog]_vars

----------------------------------------------------------------------------
(* Vocabulary of the properties. *)

\* non-decreasing by name.
IsSorted(s) == \A i, j \in 1..Len(s) : i < j => ~StrLess(s[j].name, s[i].name)

\* new is old with r put in after every product whose name is not greater than r's
\* and before every product whose name is greater.
StablyInserted(old, new, r) ==
    \E i \in 1..(Len(old) + 1) :
        /\ new = SubSeq(old, 1, i - 1) \o <<r>> \o SubSeq(old, i, Len(old))
        /\ \A k \in 1..(i - 1) : ~StrLess(r.name, old[k].name)
        /\ \A k \in i..Len(old) : StrLess(r.name, old[k].name)

\* the positions of s that hold a product named name.
Matches(s, name) == {i \in 1..Len(s) : s[i].name = name}

\* res is exactly the products of s named name, in the order of s.
IsMatchOf(res, s, name) ==
    /\ Len(res) = Cardinality(Matches(s, name))
    /\ \A k \in 1..Len(res) :
           \E i \in Matches(s, name) :
               /\ Cardinality({j \in Matches(s, name) : j <= i}) = k
               /\ res[k] = s[i]

Occurrences(s, r) == Cardinality({i \in 1..Len(s) : s[i] = r})

\* equal as multisets of (name, market, count).
SameBag(s, t) ==
    \A r \in {s[i] : i \in 1..Len(s)} \cup {t[i] : i \in 1..Len(t)} :
        Occurrences(s, r) = Occurrences(t, r)

\* the last call was a load that read a document (the file existed).
LoadedDoc == call.op = "load" /\ ret.exc # "FileNotFoundError"

FieldTags == {"name", "market", "count"}

ChildrenOf(element, tag) == {element[j] : j \in {k \in 1..Len(element) : element[k].tag = tag}}

HasChild(element, tag) == ChildrenOf(element, tag) # {}

\* some count child of some product holds text that is no integer.
HasMalformedCount(doc) ==
    \E i \in 1..Len(doc) : \E c \in ChildrenOf(doc[i], "count") : ~IsIntText(c.text)

\* The grammar of the documents: each product holds exactly one name, one market and
\* one count, in any order; the name is not empty and the count is an integer.
GrammarElement(element) ==
    /\ Len(element) = 3
    /\ \A tag \in FieldTags : HasChild(element, tag)
    /\ \A c \in ChildrenOf(element, "name") : c.text # <<>>
    /\ \A c \in ChildrenOf(element, "count") : IsIntText(c.text)

GrammarDoc(doc) == \A i \in 1..Len(doc) : GrammarElement(doc[i])

TextOf(element, tag) == (CHOOSE c \in ChildrenOf(element, tag) : TRUE).text

\* the record a product element of the grammar stands for.
RecordOf(element) ==
    Product(TextOf(element, "name"), TextOf(element, "market"),
            TextToInt(TextOf(element, "count")))

\* the records that can be put together from the children of one element.
Candidates(element) ==
    { Product(n.text, m.text, TextToInt(c.text)) :
        n \in ChildrenOf(element, "name"),
        m \in ChildrenOf(element, "market"),
        c \in {x \in ChildrenOf(element, "count") : IsIntText(x.text)} }

Lacks(element) == \E tag \in FieldTags : ~HasChild(element, tag)

\* the same with an element that is there but holds no text read as a missing one.
LacksText(element) ==
    \E tag \in FieldTags : \A c \in ChildrenOf(element, tag) : c.text = <<>>

RECURSIVE SumUpTo(_, _)
SumUpTo(cnt, i) == IF i = 0 THEN 0 ELSE SumUpTo(cnt, i - 1) + cnt[i]

\* s is made of one run of records per element of doc, in document order: none for
\* an element that Incomplete holds of, at least one for every other, each put
\* together from the children of its own element.
SplitsByElement(s, doc, Incomplete(_)) ==
    \E cnt \in [1..Len(doc) -> 0..Len(s)] :
        /\ SumUpTo(cnt, Len(doc)) = Len(s)
        /\ \A i \in 1..Len(doc) :
               /\ Incomplete(doc[i]) => cnt[i] = 0
               /\ ~Incomplete(doc[i]) => cnt[i] >= 1
               /\ \A k \in (SumUpTo(cnt, i - 1) + 1)..SumUpTo(cnt, i) :
                      s[k] \in Candidates(doc[i])

----------------------------------------------------------------------------
(* The claims. *)

\* C1: a load of a document in which some product's count text is no valid integer
\* fails with an error and leaves the records exactly as they were before the call.
C1_MalformedCountLeavesCatalog ==
    [][ (call'.op = "load" /\ ret'.exc # "FileNotFoundError"
            /\ HasMalformedCount(call'.doc))
        => (ret'.exc # "none" /\ products' = products) ]_vars

\* C2: saving a catalog whose records have a non-empty name, any market (the empty
\* one too) and a count >= 0, and then loading the saved document, gives the same
\* records as a multiset.
RoundTripDomain(s) == \A i \in 1..Len(s) : s[i].name # <<>> /\ s[i].count >= 0

C2_SaveLoadRoundTrip ==
    [][ (call.op = "save" /\ call'.op = "load" /\ file # <<>> /\ call'.doc = file[1]
            /\ ret'.exc # "FileNotFoundError" /\ RoundTripDomain(products))
        => (ret'.exc = "none" /\ SameBag(products', products)) ]_vars

\* C3: a successful add to a catalog that is sorted by name (the empty catalog, and
\* so every catalog built from it by adds alone) leaves it sorted by name, with the
\* new record after the records of the same name that were there already and the
\* others in their old order.
C3_AddKeepsSortedStable ==
    [][ (call'.op = "add" /\ ret'.exc = "none" /\ IsSorted(products))
        => /\ IsSorted(products')
           /\ StablyInserted(products, products',
                             Product(call'.name, call'.market, call'.count)) ]_vars

\* an add has put a record right after a different record of the same name.
C3_Witness ==
    /\ call.op = "add" /\ ret.exc = "none"
    /\ \E i \in 1..(Len(products) - 1) :
           /\ products[i].name = products[i + 1].name
           /\ products[i] # products[i + 1]
           /\ products[i + 1] = Product(call.name, call.market, call.count)

\* C4: add with a count < 0 raises IllegalCount carrying that count and leaves the
\* records as they were; add with a count >= 0 raises nothing and makes the list
\* longer by exactly one.
C4_AddValidatesCount ==
    [][ call'.op = "add"
        => /\ call'.count < 0 =>
                  /\ ret'.exc = "IllegalCount" /\ ret'.arg = call'.count
                  /\ products' = products
           /\ call'.count >= 0 =>
                  /\ ret'.exc = "none"
                  /\ Len(products') = Len(products) + 1 ]_vars

\* an add of a negative count was refused on a catalog that holds records.
C4_Witness ==
    /\ call.op = "add" /\ call.count < 0
    /\ ret.exc = "IllegalCount" /\ ret.arg = call.count
    /\ Len(products) > 0

\* C5: select(name) raises nothing, leaves the records as they were and returns
\* exactly the records whose name equals the query, duplicates included, in catalog
\* order (the empty list when there is none).
C5_SelectReturnsMatches ==
    [][ call'.op = "select"
        => /\ products' = products
           /\ ret'.exc = "none"
           /\ IsMatchOf(ret'.value, products, call'.name) ]_vars

\* a select returned two records out of a catalog that holds others too, one of
\* them a name that differs from the query only in case.
C5_Witness ==
    /\ call.op = "select" /\ call.name = TextA
    /\ Len(ret.value) >= 2
    /\ \E i \in 1..Len(products) : products[i].name = Texta

\* C6: a load of a document (with integer counts) in which some product element
\* lacks a name, market or count child raises nothing; the elements that lack a
\* child give no record, every element that has all three gives a record, and every
\* record is made of the children of one element.
C6_PartialFieldDrop ==
    (LoadedDoc /\ ~HasMalformedCount(call.doc)
        /\ \E i \in 1..Len(call.doc) : Lacks(call.doc[i]))
    => (ret.exc = "none" /\ SplitsByElement(products, call.doc, Lacks))

\* C6 with "lacks a field" read as load reads it (no child of that tag holds text):
\* this form holds.
C6_PartialFieldDropOfText ==
    (LoadedDoc /\ ~HasMalformedCount(call.doc)
        /\ \E i \in 1..Len(call.doc) : LacksText(call.doc[i]))
    => (ret.exc = "none" /\ SplitsByElement(products, call.doc, LacksText))

\* C7: right after a successful add or load the records are sorted by name.
C7_SortedAfterMutation ==
    (call.op \in {"add", "load"} /\ ret.exc = "none") => IsSorted(products)

\* C8: after a load of a document of the grammar (integer counts) every record has
\* a count >= 0.
C8_CountsNonNegative ==
    (LoadedDoc /\ GrammarDoc(call.doc))
    => \A i \in 1..Len(products) : products[i].count >= 0

\* C9: after a load of a document of the grammar the records are the document's
\* products, one record per product element, in document order.
C9_LoadReplacesInDocumentOrder ==
    (LoadedDoc /\ GrammarDoc(call.doc))
    => /\ ret.exc = "none"
       /\ products = [i \in 1..Len(call.doc) |-> RecordOf(call.doc[i])]

\* C9 for the documents of the grammar in which every market holds text: this form
\* holds.
C9_LoadOfTextInDocumentOrder ==
    (LoadedDoc /\ GrammarDoc(call.doc)
        /\ \A i \in 1..Len(call.doc) : ~LacksText(call.doc[i]))
    => /\ ret.exc = "none"
       /\ products = [i \in 1..Len(call.doc) |-> RecordOf(call.doc[i])]

\* C10: a load that raises nothing leaves at most one record per product element
\* of the document.
C10_AtMostOneRecordPerElement ==
    (LoadedDoc /\ ret.exc = "none") => Len(products) <= Len(call.doc)

====
